---- MODULE Spec2Model ----
(***************************************************************************)
(* StreamingResponse (teams/streaming/streaming_response.py): the queue of *)
(* outgoing activities of a streamed answer, its producer calls            *)
(* (queue_informative_update, queue_text_chunk, end_stream), the drain     *)
(* task that sends the queued activities one at a time, and the send path  *)
(* that decorates each activity from the instance's state.                 *)
(*                                                                         *)
(* The program runs on one asyncio event loop: a step of the model is the  *)
(* code executed between two await points.  Text is a sequence of tokens.  *)
(***************************************************************************)
EXTENDS Integers, Sequences, FiniteSets, TLC

\* Bound on the number of API calls made in one behaviour.
MaxCalls == 3

\* The StreamingResponse objects that may exist in the process.
Instances == {"A", "B"}
\* Arguments of queue_text_chunk: a plain token and a citation placeholder.
Chunks == {"a", "[doc1]"}
\* Arguments of queue_informative_update.
InfoTexts == {"t1", "t2"}
\* Identifiers the transport may return; "" stands for no response (None).
ResponseIds == {"", "r1", "r2"}
\* Arguments of set_citations: lists of citation titles; "" is no title.
CitationLists == {<<>>, <<"T">>, <<"", "T">>}
\* self._queue_sync = None
NoTask == 0
\* StreamingChannelData.stream_sequence absent
NoSequence == 0

VARIABLES
    live,                         \* the instances that have been constructed
    next_sequence,                \* [instance -> _next_sequence]
    stream_id,                    \* [instance -> _stream_id]
    message,                      \* [instance -> _message]
    ended,                        \* [instance -> _ended]
    enable_feedback_loop,         \* [instance -> _enable_feedback_loop]
    feedback_loop_type,           \* [instance -> _feedback_loop_type], "" is None
    enable_generated_by_ai_label, \* [instance -> _enable_generated_by_ai_label]
    queue,                        \* StreamingResponse._queue: ONE class-level list
    queue_sync,                   \* [instance -> _queue_sync], a task number or NoTask
    chunk_queued,                 \* [instance -> _chunk_queued]
    tasks,                        \* [instance -> the drain tasks it created, in order]
    ready,                        \* created tasks the event loop has not started yet
    epc,                          \* [instance -> where its end_stream() coroutine is]
    awaited,                      \* [instance -> the task end_stream() awaits]
    ncalls,                       \* API calls made so far
    outcome,                      \* the last API call and whether it raised
    sent,                         \* activities handed to TurnContext.send_activity
    accepted,                     \* [instance -> chunks queue_text_chunk accepted]
    citations,                    \* [instance -> _citations]
    informed,                     \* [instance -> texts queue_informative_update accepted]
    stale                         \* jobs at the head of the backlog that were
                                  \* queued behind a send that failed

vars == <<live, next_sequence, stream_id, message, ended, enable_feedback_loop,
          feedback_loop_type, enable_generated_by_ai_label, queue, queue_sync,
          chunk_queued, tasks, ready, epc, awaited, ncalls, outcome, sent,
          accepted, citations, informed, stale>>

config == <<enable_feedback_loop, feedback_loop_type, enable_generated_by_ai_label>>
producerState == <<next_sequence, message, ended, queue, queue_sync, chunk_queued,
                   tasks, ready, accepted, informed>>

----------------------------------------------------------------------------
\* teams.utils.citations.format_citations_response: "[docN]" becomes "[N]".
FormatCitationsResponse(text) ==
    [k \in 1..Len(text) |-> IF text[k] = "[doc1]" THEN "[1]" ELSE text[k]]

\* A slip in queue_text_chunk: `=` where the code has `+=`.
AppendChunkOverwrites(msg, text) == FormatCitationsResponse(<<text>>)

\* self._message += text; self._message = format_citations_response(self._message)
AppendChunk(msg, text) == FormatCitationsResponse(msg \o <<text>>)

\* The job queue_informative_update enqueues: lambda: activity, built at the call.
InformativeJob(i, text) ==
    [owner |-> i, kind |-> "activity", text |-> <<text>>, seq |-> next_sequence[i]]

\* The job queue_next_chunk enqueues: _format_next_chunk, which reads self later.
ChunkJob(i) ==
    [owner |-> i, kind |-> "chunk", text |-> <<>>, seq |-> NoSequence]

\* A slip in queue_activity: the `if not self._queue_sync` test is missing.
AlwaysStartsDrain(i) == TRUE

\* if not self._queue_sync
NoSyncInProgress(i) == queue_sync[i] = NoTask

\* A slip in queue_activity: insert(0, factory) where the code has append.
QueueActivityAtFront(i, job) ==
    /\ queue' = <<job>> \o queue
    /\ IF queue_sync[i] = NoTask
       THEN /\ tasks' = [tasks EXCEPT ![i] = Append(@, [pc |-> "ready", resp |-> ""])]
            /\ queue_sync' = [queue_sync EXCEPT ![i] = Len(tasks[i]) + 1]
            /\ ready' = Append(ready, <<i, Len(tasks[i]) + 1>>)
       ELSE UNCHANGED <<tasks, queue_sync, ready>>

\* queue_activity: append to the class-level list; start a drain task if none.
QueueActivity(i, job) ==
    /\ queue' = Append(queue, job)
    /\ IF NoSyncInProgress(i)
       THEN /\ tasks' = [tasks EXCEPT ![i] = Append(@, [pc |-> "ready", resp |-> ""])]
            /\ queue_sync' = [queue_sync EXCEPT ![i] = Len(tasks[i]) + 1]
            /\ ready' = Append(ready, <<i, Len(tasks[i]) + 1>>)
       ELSE UNCHANGED <<tasks, queue_sync, ready>>

\* A slip in queue_next_chunk: the coalescing guard is missing.
ChunkNeverCoalesced(i) == FALSE

\* if self._chunk_queued: return
ChunkAlreadyQueued(i) == chunk_queued[i]

\* queue_next_chunk
QueueNextChunk(i) ==
    IF ChunkAlreadyQueued(i)
    THEN UNCHANGED <<chunk_queued, queue, tasks, queue_sync, ready>>
    ELSE /\ chunk_queued' = [chunk_queued EXCEPT ![i] = TRUE]
         /\ QueueActivity(i, ChunkJob(i))

Raise(i, op) ==
    outcome' = [inst |-> i, op |-> op, result |-> "StreamAlreadyEnded"]

Return(i, op) ==
    outcome' = [inst |-> i, op |-> op, result |-> "ok"]

ProducerOps == {"queue_informative_update", "queue_text_chunk", "end_stream"}

----------------------------------------------------------------------------
\* Producer calls.

queue_informative_update(i, text) ==
    /\ ncalls < MaxCalls
    /\ ncalls' = ncalls + 1
    /\ IF ended[i]
       THEN /\ Raise(i, "queue_informative_update")
            /\ UNCHANGED producerState
       ELSE /\ QueueActivity(i, InformativeJob(i, text))
            /\ next_sequence' = [next_sequence EXCEPT ![i] = @ + 1]
            /\ informed' = [informed EXCEPT ![i] = Append(@, text)]
            /\ Return(i, "queue_informative_update")
            /\ UNCHANGED <<message, ended, chunk_queued, accepted>>
    /\ UNCHANGED <<live, citations, stream_id, config, epc, awaited, sent, stale>>

\* A slip in queue_text_chunk: the `if self._ended` check is missing.
queue_text_chunk_unguarded(i, text) ==
    /\ ncalls < MaxCalls
    /\ ncalls' = ncalls + 1
    /\ message' = [message EXCEPT ![i] = AppendChunk(@, text)]
    /\ accepted' = [accepted EXCEPT ![i] = Append(@, text)]
    /\ QueueNextChunk(i)
    /\ Return(i, "queue_text_chunk")
    /\ UNCHANGED <<next_sequence, ended, informed>>
    /\ UNCHANGED <<live, citations, stream_id, config, epc, awaited, sent, stale>>

queue_text_chunk(i, text) ==
    /\ ncalls < MaxCalls
    /\ ncalls' = ncalls + 1
    /\ IF ended[i]
       THEN /\ Raise(i, "queue_text_chunk")
            /\ UNCHANGED producerState
       ELSE /\ message' = [message EXCEPT ![i] = AppendChunk(@, text)]
            /\ accepted' = [accepted EXCEPT ![i] = Append(@, text)]
            /\ QueueNextChunk(i)
            /\ Return(i, "queue_text_chunk")
            /\ UNCHANGED <<next_sequence, ended, informed>>
    /\ UNCHANGED <<live, citations, stream_id, config, epc, awaited, sent, stale>>

\* wait_for_queue, up to its await: the task awaited, or asyncio.sleep(0).
WaitForQueue(i) ==
    IF queue_sync'[i] # NoTask
    THEN /\ epc' = [epc EXCEPT ![i] = "awaiting"]
         /\ awaited' = [awaited EXCEPT ![i] = queue_sync'[i]]
    ELSE /\ epc' = [epc EXCEPT ![i] = "sleeping"]
         /\ UNCHANGED awaited

\* A slip in end_stream: the `if self._ended` check is missing.
end_stream_unguarded(i) ==
    /\ ncalls < MaxCalls
    /\ ncalls' = ncalls + 1
    /\ ended' = [ended EXCEPT ![i] = TRUE]
    /\ QueueNextChunk(i)
    /\ WaitForQueue(i)
    /\ Return(i, "end_stream")
    /\ UNCHANGED <<next_sequence, message, accepted, informed>>
    /\ UNCHANGED <<live, citations, stream_id, config, sent, stale>>

end_stream(i) ==
    /\ ncalls < MaxCalls
    /\ ncalls' = ncalls + 1
    /\ IF ended[i]
       THEN /\ Raise(i, "end_stream")
            /\ UNCHANGED <<producerState, epc, awaited>>
       ELSE /\ ended' = [ended EXCEPT ![i] = TRUE]
            /\ QueueNextChunk(i)
            /\ WaitForQueue(i)
            /\ Return(i, "end_stream")
            /\ UNCHANGED <<next_sequence, message, accepted, informed>>
    /\ UNCHANGED <<live, citations, stream_id, config, sent, stale>>

\* A slip in wait_for_queue: the task's exception is swallowed.
end_stream_resume_swallows(i) ==
    /\ \/ /\ epc[i] = "awaiting"
          /\ tasks[i][awaited[i]].pc \in {"done", "failed"}
       \/ epc[i] = "sleeping"
    /\ epc' = [epc EXCEPT ![i] = "returned"]
    /\ UNCHANGED <<live, citations, producerState, stream_id, config, awaited, ncalls,
                   outcome, sent, stale>>

\* end_stream resumes: the awaited task finished or failed, or sleep(0) is over.
end_stream_resume(i) ==
    /\ \/ /\ epc[i] = "awaiting"
          /\ tasks[i][awaited[i]].pc = "done"
          /\ epc' = [epc EXCEPT ![i] = "returned"]
       \/ /\ epc[i] = "awaiting"
          /\ tasks[i][awaited[i]].pc = "failed"
          /\ epc' = [epc EXCEPT ![i] = "raised"]
       \/ /\ epc[i] = "sleeping"
          /\ epc' = [epc EXCEPT ![i] = "returned"]
    /\ UNCHANGED <<live, citations, producerState, stream_id, config, awaited, ncalls,
                   outcome, sent, stale>>

\* A slip in set_citations: `curr_pos += 1` is missing.
ClientCitationsSamePosition(cur, new) ==
    [k \in 1..Len(new) |->
        [position |-> Len(cur) + 1,
         name |-> IF new[k] # "" THEN new[k] ELSE "Document"]]

\* The records set_citations appends to the list cur for the input list new:
\* position = curr_pos + 1, name = citation.title or "Document <position>".
ClientCitations(cur, new) ==
    [k \in 1..Len(new) |->
        [position |-> Len(cur) + k,
         name |-> IF new[k] # "" THEN new[k] ELSE "Document"]]

set_citations(i, new) ==
    /\ ncalls < MaxCalls
    /\ ncalls' = ncalls + 1
    /\ citations' = [citations EXCEPT ![i] = @ \o ClientCitations(@, new)]
    /\ Return(i, "set_citations")
    /\ UNCHANGED <<live, producerState, stream_id, config, epc, awaited, sent, stale>>

set_feedback_loop(i, b) ==
    /\ ncalls < MaxCalls
    /\ ncalls' = ncalls + 1
    /\ enable_feedback_loop' = [enable_feedback_loop EXCEPT ![i] = b]
    /\ Return(i, "set_feedback_loop")
    /\ UNCHANGED <<live, citations, producerState, stream_id, feedback_loop_type,
                   enable_generated_by_ai_label, epc, awaited, sent, stale>>

set_feedback_loop_type(i, t) ==
    /\ ncalls < MaxCalls
    /\ ncalls' = ncalls + 1
    /\ feedback_loop_type' = [feedback_loop_type EXCEPT ![i] = t]
    /\ Return(i, "set_feedback_loop_type")
    /\ UNCHANGED <<live, citations, producerState, stream_id, enable_feedback_loop,
                   enable_generated_by_ai_label, epc, awaited, sent, stale>>

set_generated_by_ai_label(i, b) ==
    /\ ncalls < MaxCalls
    /\ ncalls' = ncalls + 1
    /\ enable_generated_by_ai_label' = [enable_generated_by_ai_label EXCEPT ![i] = b]
    /\ Return(i, "set_generated_by_ai_label")
    /\ UNCHANGED <<live, citations, producerState, stream_id, enable_feedback_loop,
                   feedback_loop_type, epc, awaited, sent, stale>>

\* updates_sent(): return self._next_sequence - 1
updates_sent(i) == next_sequence[i] - 1

----------------------------------------------------------------------------
\* The drain task.

\* factory(): the activity a job yields when it is dequeued.
Factory(job) ==
    IF job.kind = "activity"
    THEN [type |-> "typing", stream_type |-> "informative",
          seq |-> job.seq, text |-> job.text]
    ELSE IF ended[job.owner]
         THEN [type |-> "message", stream_type |-> "final",
               seq |-> NoSequence, text |-> message[job.owner]]
         ELSE [type |-> "typing", stream_type |-> "streaming",
               seq |-> next_sequence[job.owner], text |-> message[job.owner]]

\* A slip in _format_next_chunk: the flag is not cleared.
ChunkQueuedNeverCleared(job) == chunk_queued

\* _format_next_chunk: self._chunk_queued = False
ChunkQueuedAfter(job) ==
    IF job.kind = "chunk"
    THEN [chunk_queued EXCEPT ![job.owner] = FALSE]
    ELSE chunk_queued

\* A slip in _format_next_chunk: the increment is missing.
NextSequenceNotAdvanced(job) == next_sequence

\* _format_next_chunk: self._next_sequence += 1 on the streaming branch
NextSequenceAfter(job) ==
    IF job.kind = "chunk" /\ ~ended[job.owner]
    THEN [next_sequence EXCEPT ![job.owner] = @ + 1]
    ELSE next_sequence

\* The inline reference marker of the citation at a position.
Marker(position) ==
    IF position = 1 THEN "[1]" ELSE IF position = 2 THEN "[2]" ELSE "[n]"

\* teams.utils.citations.get_used_citations: the citations the text refers to.
GetUsedCitations(text, cits) ==
    SelectSeq(cits, LAMBDA c : \E k \in 1..Len(text) : text[k] = Marker(c.position))

\* send_activity, up to the call of self._context.send_activity(activity):
\* instance i stamps its stream id and, if it has ended, its decorations.
WireMessage(i, owner, act, sid) ==
    [ctx |-> i, owner |-> owner,
     type |-> act.type, stream_type |-> act.stream_type,
     seq |-> act.seq, text |-> act.text,
     stream_id |-> sid,
     feedback_loop_enabled |-> ended[i] /\ enable_feedback_loop[i],
     feedback_loop_type |->
         IF ended[i] /\ ~enable_feedback_loop[i] THEN feedback_loop_type[i] ELSE "",
     ai_generated |-> ended[i] /\ enable_generated_by_ai_label[i],
     citation_entity |-> Len(citations[i]) > 0 /\ ~ended[i],
     citation |->
         IF Len(citations[i]) > 0 /\ ~ended[i]
         THEN GetUsedCitations(message[i], citations[i])
         ELSE IF ended[i] /\ enable_generated_by_ai_label[i]
              THEN citations[i]
              ELSE <<>>]

\* self._queue.pop(0): the head job leaves the backlog.
StaleAfterPop == IF stale > 0 THEN stale - 1 ELSE 0

\* finally: self._queue_sync = None
MarkIdle(i) == [queue_sync EXCEPT ![i] = NoTask]

\* One turn of `while len(self._queue) > 0` in task t of instance i, whose
\* stream id is sid: either the loop ends, or the head job is popped,
\* materialized and handed to the transport.
DrainLoop(i, t, sid) ==
    IF Len(queue) = 0
    THEN /\ tasks' = [tasks EXCEPT ![i][t] = [pc |-> "done", resp |-> ""]]
         /\ queue_sync' = MarkIdle(i)
         /\ UNCHANGED <<queue, chunk_queued, next_sequence, sent, stale>>
    ELSE LET job == Head(queue) IN
         /\ queue' = Tail(queue)
         /\ chunk_queued' = ChunkQueuedAfter(job)
         /\ next_sequence' = NextSequenceAfter(job)
         /\ sent' = Append(sent, WireMessage(i, job.owner, Factory(job), sid))
         /\ tasks' = [tasks EXCEPT ![i][t] = [pc |-> "sending", resp |-> ""]]
         /\ stale' = StaleAfterPop
         /\ UNCHANGED queue_sync

\* The event loop starts the oldest created task.
drain_start ==
    /\ Len(ready) > 0
    /\ LET i == Head(ready)[1]
           t == Head(ready)[2]
       IN  DrainLoop(i, t, stream_id[i])
    /\ ready' = Tail(ready)
    /\ UNCHANGED <<live, citations, stream_id, message, ended, config, epc, awaited,
                   ncalls, outcome, accepted, informed>>

\* await self._context.send_activity(activity) returns resp.
send_ok(i, t, resp) ==
    /\ t \in 1..Len(tasks[i])
    /\ tasks[i][t].pc = "sending"
    /\ tasks' = [tasks EXCEPT ![i][t] = [pc |-> "sleeping", resp |-> resp]]
    /\ UNCHANGED <<live, citations, next_sequence, stream_id, message, ended, config,
                   queue, queue_sync, chunk_queued, ready, epc, awaited, ncalls,
                   outcome, sent, accepted, informed, stale>>

\* await self._context.send_activity(activity) raises: the task ends in finally.
send_fail(i, t) ==
    /\ t \in 1..Len(tasks[i])
    /\ tasks[i][t].pc = "sending"
    /\ tasks' = [tasks EXCEPT ![i][t] = [pc |-> "failed", resp |-> ""]]
    /\ queue_sync' = MarkIdle(i)
    /\ stale' = Len(queue)
    /\ UNCHANGED <<live, citations, next_sequence, stream_id, message, ended, config,
                   queue, chunk_queued, ready, epc, awaited, ncalls, outcome, sent,
                   accepted, informed>>

\* A slip in send_activity: the `not self._stream_id` test is missing.
StreamIdOverwritten(i, resp) == IF resp # "" THEN resp ELSE stream_id[i]

\* if not self._stream_id and response: self._stream_id = response.id
StreamIdAfter(i, resp) ==
    IF stream_id[i] = "" /\ resp # "" THEN resp ELSE stream_id[i]

\* asyncio.sleep(1.5) is over: save the stream id and go round the loop.
after_sleep(i, t) ==
    /\ t \in 1..Len(tasks[i])
    /\ tasks[i][t].pc = "sleeping"
    /\ stream_id' = [stream_id EXCEPT ![i] = StreamIdAfter(i, tasks[i][t].resp)]
    /\ DrainLoop(i, t, StreamIdAfter(i, tasks[i][t].resp))
    /\ UNCHANGED <<live, citations, message, ended, config, ready, epc, awaited,
                   ncalls, outcome, accepted, informed>>

----------------------------------------------------------------------------
InitState ==
    /\ next_sequence = [i \in Instances |-> 1]
    /\ stream_id = [i \in Instances |-> ""]
    /\ message = [i \in Instances |-> <<>>]
    /\ ended = [i \in Instances |-> FALSE]
    /\ enable_feedback_loop = [i \in Instances |-> FALSE]
    /\ feedback_loop_type = [i \in Instances |-> ""]
    /\ enable_generated_by_ai_label = [i \in Instances |-> FALSE]
    /\ queue = <<>>
    /\ queue_sync = [i \in Instances |-> NoTask]
    /\ chunk_queued = [i \in Instances |-> FALSE]
    /\ tasks = [i \in Instances |-> <<>>]
    /\ ready = <<>>
    /\ epc = [i \in Instances |-> "none"]
    /\ awaited = [i \in Instances |-> NoTask]
    /\ ncalls = 0
    /\ outcome = [inst |-> "", op |-> "", result |-> ""]
    /\ sent = <<>>
    /\ accepted = [i \in Instances |-> <<>>]
    /\ citations = [i \in Instances |-> <<>>]
    /\ informed = [i \in Instances |-> <<>>]
    /\ stale = 0

\* One StreamingResponse has been constructed.
Init == live = {"A"} /\ InitState

\* Two StreamingResponse objects have been constructed in the same process.
InitTwo == live = Instances /\ InitState

Next ==
    \/ \E i \in live, text \in InfoTexts : queue_informative_update(i, text)
    \/ \E i \in live, text \in Chunks : queue_text_chunk(i, text)
    \/ \E i \in live : end_stream(i)
    \/ \E i \in live : end_stream_resume(i)
    \/ \E i \in live, new \in CitationLists : set_citations(i, new)
    \/ \E i \in live, b \in BOOLEAN : set_feedback_loop(i, b)
    \/ \E i \in live, t \in {"default", "custom"} : set_feedback_loop_type(i, t)
    \/ \E i \in live, b \in BOOLEAN : set_generated_by_ai_label(i, b)
    \/ drain_start
    \/ \E i \in live, t \in 1..MaxCalls, resp \in ResponseIds : send_ok(i, t, resp)
    \/ \E i \in live, t \in 1..MaxCalls : send_fail(i, t)
    \/ \E i \in live, t \in 1..MaxCalls : after_sleep(i, t)

Spec == Init /\ [][Next]_vars

SpecTwo == InitTwo /\ [][Next]_vars

\* The steps of one StreamingResponse over a transport that never fails.
send_completes == \E i \in live, t \in 1..MaxCalls, resp \in ResponseIds : send_ok(i, t, resp)
sleep_completes == \E i \in live, t \in 1..MaxCalls : after_sleep(i, t)

NextReliable ==
    \/ \E i \in live, text \in InfoTexts : queue_informative_update(i, text)
    \/ \E i \in live, text \in Chunks : queue_text_chunk(i, text)
    \/ \E i \in live : end_stream(i)
    \/ \E i \in live : end_stream_resume(i)
    \/ \E i \in live, new \in CitationLists : set_citations(i, new)
    \/ \E i \in live, b \in BOOLEAN : set_feedback_loop(i, b)
    \/ \E i \in live, t \in {"default", "custom"} : set_feedback_loop_type(i, t)
    \/ \E i \in live, b \in BOOLEAN : set_generated_by_ai_label(i, b)
    \/ drain_start
    \/ send_completes
    \/ sleep_completes

\* The event loop runs every task that can run: a created task is started, a
\* send that does not fail returns, and asyncio.sleep(1.5) ends.
SpecReliable ==
    /\ Init
    /\ [][NextReliable]_vars
    /\ WF_vars(drain_start)
    /\ WF_vars(send_completes)
    /\ WF_vars(sleep_completes)

----------------------------------------------------------------------------
\* What the transport has been handed.

Sent == 1..Len(sent)
IsFinal(m) == m.stream_type = "final"
NonFinalSent == SelectSeq(sent, LAMBDA m : ~IsFinal(m))
Finals(i) == {k \in Sent : sent[k].owner = i /\ IsFinal(sent[k])}
ChunkJobsQueued(i) ==
    {k \in 1..Len(queue) : queue[k].owner = i /\ queue[k].kind = "chunk"}
SendInFlight(i) ==
    \E t \in 1..Len(tasks[i]) : tasks[i][t].pc = "sending"

\* C1: for one instance, at most one message with stream_type "final" is ever
\* handed to the transport, and it is the only one of Activity type "message";
\* a second end_stream() raises and adds no final message.
C1_AtMostOneFinal ==
    \A i \in live :
        /\ Cardinality(Finals(i)) <= 1
        /\ \A k \in Sent : (sent[k].type = "message") <=> IsFinal(sent[k])

\* C1 witness: the final message has been sent and a second end_stream() raised.
C1_Witness ==
    /\ Cardinality(Finals("A")) = 1
    /\ outcome = [inst |-> "A", op |-> "end_stream", result |-> "StreamAlreadyEnded"]

\* C2: in the order of handing to the transport the final message is the last:
\* no informative or streaming message is sent after it.
C2_FinalIsLast ==
    \A k \in Sent : IsFinal(sent[k]) => k = Len(sent)

\* C3: the non-final messages, in the order they are handed to the transport,
\* carry stream_sequence 1, 2, 3, ...
C3_SentInSequenceOrder ==
    \A k \in 1..Len(NonFinalSent) : NonFinalSent[k].seq = k

\* C4: when end_stream() has returned without raising, the backlog is empty, no
\* drain task is active, and the final message with the full accumulated text
\* has been handed to the transport and its send has completed.
C4_EndStreamReturnsDrained ==
    \A i \in live :
        epc[i] = "returned" =>
            /\ Len(queue) = 0
            /\ queue_sync[i] = NoTask
            /\ ~SendInFlight(i)
            /\ \E k \in Sent : IsFinal(sent[k]) /\ sent[k].text = message[i]

\* C5: once end_stream() has been invoked, every later producer call raises
\* "stream has already ended" and leaves the backlog, the accumulated text, the
\* sequence counter and the coalescing flag unchanged.
C5_CallsAfterEndRaise ==
    [][\A i \in live :
          (ended[i] /\ ncalls' # ncalls /\ outcome'.inst = i
                    /\ outcome'.op \in ProducerOps)
          => /\ outcome'.result = "StreamAlreadyEnded"
             /\ UNCHANGED <<queue, message, next_sequence, chunk_queued>>]_vars

\* C5 witness: queue_text_chunk raised while end_stream() was awaiting the drain.
C5_Witness ==
    /\ epc["A"] = "awaiting"
    /\ outcome = [inst |-> "A", op |-> "queue_text_chunk",
                  result |-> "StreamAlreadyEnded"]

\* C6: no two messages handed to the transport carry the same stream_sequence,
\* every informative or streaming message carries one, and the final message
\* carries none.
C6_SequenceNeverReused ==
    /\ \A j \in Sent : \A k \in Sent :
           (j # k /\ ~IsFinal(sent[j]) /\ ~IsFinal(sent[k]))
           => sent[j].seq # sent[k].seq
    /\ \A k \in Sent : IsFinal(sent[k]) <=> sent[k].seq = NoSequence

\* C6 witness: a streaming, an informative and the final message have been sent.
C6_Witness ==
    /\ \E k \in Sent : sent[k].stream_type = "streaming"
    /\ \E k \in Sent : sent[k].stream_type = "informative"
    /\ \E k \in Sent : IsFinal(sent[k])

\* C7: the backlog holds at most one text-flush job, and _chunk_queued is true
\* exactly when that job is in the backlog.
C7_Coalescing ==
    \A i \in live :
        /\ Cardinality(ChunkJobsQueued(i)) <= 1
        /\ chunk_queued[i] <=> ChunkJobsQueued(i) # {}

\* C7 witness: two queue_text_chunk calls and end_stream() were accepted before
\* the drain task dequeued the flush job, and the backlog holds that one job.
C7_Witness ==
    /\ Len(accepted["A"]) = 2
    /\ ended["A"]
    /\ Len(sent) = 0
    /\ Len(queue) = 1
    /\ chunk_queued["A"]

\* C8: the text of a streaming or final message handed to the transport is the
\* accumulated text at its dequeue: the chunks accepted so far, in call order,
\* with their citation markers formatted.
C8_LazyMaterialization ==
    [][Len(sent') = Len(sent) + 1 =>
          LET m == sent'[Len(sent')] IN
          m.stream_type \in {"streaming", "final"} =>
              /\ m.text = message[m.owner]
              /\ m.text = FormatCitationsResponse(accepted[m.owner])]_vars

\* C8 witness: two chunks were coalesced into one streaming message, and a
\* third chunk was accepted after it was sent.
C8_Witness ==
    /\ Len(sent) = 1
    /\ sent[1].stream_type = "streaming"
    /\ Len(sent[1].text) = 2
    /\ Len(accepted["A"]) = 3

\* C9: with two instances alive, a job enqueued by a call on one instance is
\* only ever sent through that instance's context.
C9_InstancesIndependent ==
    \A k \in Sent : sent[k].ctx = sent[k].owner

\* C10: no informative or streaming message handed to the transport carries
\* feedback_loop_enabled, feedback_loop_type or the AIGeneratedContent entity.
C10_DecorationsOnFinalOnly ==
    \A k \in Sent :
        ~IsFinal(sent[k]) =>
            /\ ~sent[k].feedback_loop_enabled
            /\ sent[k].feedback_loop_type = ""
            /\ ~sent[k].ai_generated

\* C11: after the transport has failed on one job, no job that was queued behind
\* it at the time of the failure is ever handed to the transport.
C11_FailedSendAbortsBacklog ==
    [][stale > 0 => sent' = sent]_vars

\* C13: once _stream_id is non-empty it never changes, and every message
\* carries the identifier its instance holds when its send starts (none, while
\* none has been assigned).
C13_StreamIdSticky ==
    [][/\ \A i \in live : stream_id[i] # "" => stream_id'[i] = stream_id[i]
       /\ Len(sent') = Len(sent) + 1 =>
              sent'[Len(sent')].stream_id = stream_id'[sent'[Len(sent')].ctx]]_vars

\* C13 witness: the first message went out without an identifier, the second
\* carries the identifier "r1" of the first response, and a later response
\* offered the identifier "r2".
C13_Witness ==
    /\ Len(sent) = 2
    /\ sent[1].stream_id = ""
    /\ sent[2].stream_id = "r1"
    /\ stream_id["A"] = "r1"
    /\ \E t \in 1..Len(tasks["A"]) : tasks["A"][t].resp = "r2"

\* C14: updates_sent() equals the number of informative and streaming messages
\* handed to the transport so far.
C14_UpdatesSentCountsSent ==
    \A i \in live :
        updates_sent(i) = Len(SelectSeq(NonFinalSent, LAMBDA m : m.owner = i))

\* Nothing of instance i is pending: the backlog is empty, no drain task is
\* active, and the chunks accepted so far all appear in a sent message.
C12_Settled(i) ==
    /\ Len(queue) = 0
    /\ queue_sync[i] = NoTask
    /\ accepted[i] # <<>> =>
           \E k \in Sent : /\ sent[k].stream_type \in {"streaming", "final"}
                            /\ sent[k].owner = i
                            /\ sent[k].text = FormatCitationsResponse(accepted[i])

\* C12: over a transport that never fails and with the drain task scheduled
\* fairly, every job placed in the backlog is eventually handed to the
\* transport, every accepted chunk eventually appears in a sent message, and
\* the engine eventually returns to idle with an empty backlog.
C12_EventuallySent ==
    []<>C12_Settled("A")

\* C12 witness: a chunk, an informative update and the terminal call were
\* accepted, all three jobs have been sent and the engine is idle again.
C12_Witness ==
    /\ Len(accepted["A"]) = 1
    /\ Len(informed["A"]) = 1
    /\ ended["A"]
    /\ Len(sent) = 3
    /\ Len(queue) = 0
    /\ queue_sync["A"] = NoTask

ActiveTasks(i) ==
    {t \in 1..Len(tasks[i]) : tasks[i][t].pc \in {"ready", "sending", "sleeping"}}
InformativeTexts(msgs, i) ==
    LET own == SelectSeq(msgs, LAMBDA m : m.owner = i /\ m.text # <<>> /\
                                          (m.kind = "activity"))
    IN  [k \in 1..Len(own) |-> own[k].text[1]]
SentAsJobs ==
    [k \in Sent |->
        [owner |-> sent[k].owner, text |-> sent[k].text,
         kind |-> IF sent[k].stream_type = "informative" THEN "activity" ELSE "chunk"]]

\* C15: when a send fails in the drain task that end_stream() awaits,
\* end_stream() raises instead of returning, and the failed message is neither
\* handed to the transport again nor put back in the backlog.
C15_FailureReachesAwaiter ==
    [][\A i \in live :
          /\ (epc[i] = "awaiting" /\ tasks[i][awaited[i]].pc = "failed")
             => epc'[i] \in {"awaiting", "raised"}
          /\ epc'[i] = "raised" => tasks'[i][awaited'[i]].pc = "failed"
          /\ \A t \in 1..Len(tasks[i]) :
                (tasks[i][t].pc = "sending" /\ tasks'[i][t].pc = "failed")
                => sent' = sent /\ queue' = queue]_vars

\* C15 witness: end_stream() raised because the drain task it awaited failed.
C15_Witness ==
    /\ epc["A"] = "raised"
    /\ tasks["A"][awaited["A"]].pc = "failed"

\* C16: every accepted queue_informative_update call is one informative job
\* with its own text, either already sent or still queued, in the order of the
\* calls, and at most one send is in flight.
C16_FifoInformative ==
    \A i \in live :
        /\ InformativeTexts(SentAsJobs, i) \o InformativeTexts(queue, i) = informed[i]
        /\ Cardinality({t \in 1..Len(tasks[i]) : tasks[i][t].pc = "sending"}) <= 1

\* C16 witness: two informative updates with different texts were sent in the
\* order of their calls, with a chunk accepted between them.
C16_Witness ==
    /\ informed["A"] = <<"t2", "t1">>
    /\ Len(sent) = 3
    /\ sent[1].text = <<"t2">>
    /\ sent[2].stream_type = "streaming"
    /\ sent[3].text = <<"t1">>

\* C17: an instance has at most one active drain task, and _queue_sync names
\* it exactly while it is active.
C17_OneDrainTask ==
    \A i \in live :
        /\ Cardinality(ActiveTasks(i)) <= 1
        /\ queue_sync[i] = NoTask <=> ActiveTasks(i) = {}
        /\ queue_sync[i] # NoTask => ActiveTasks(i) = {queue_sync[i]}

\* C17 witness: a job was enqueued while the drain task was sending, no second
\* task was started, and after that task failed a later enqueue started one.
C17_Witness ==
    /\ Len(tasks["A"]) = 2
    /\ tasks["A"][1].pc = "failed"
    /\ tasks["A"][2].pc = "sending"
    /\ Len(queue) = 1

\* C18: a cleared draining marker implies an empty backlog and a cleared
\* coalescing flag.
C18_NoStrandedWork ==
    \A i \in live :
        queue_sync[i] = NoTask => (Len(queue) = 0 /\ ~chunk_queued[i])

\* C19: when citations are registered, a non-final message handed to the
\* transport carries a citation entity with the citations the accumulated text
\* refers to, and the final message, with the AI-generated label enabled,
\* carries the full citation list.
C19_CitationFiltering ==
    [][Len(sent') = Len(sent) + 1 =>
          LET m == sent'[Len(sent')]
              i == m.ctx
          IN  /\ (~IsFinal(m) /\ Len(citations[i]) > 0) =>
                     /\ m.citation_entity
                     /\ m.citation = GetUsedCitations(message[i], citations[i])
              /\ (IsFinal(m) /\ enable_generated_by_ai_label[i]) =>
                     /\ m.ai_generated
                     /\ m.citation = citations[i]]_vars

\* C20: the i-th record of the citation list has position i, and no call
\* changes a record appended by an earlier call.
C20_CitationPositions ==
    /\ [](\A i \in Instances : \A k \in 1..Len(citations[i]) :
              citations[i][k].position = k)
    /\ [][\A i \in Instances :
              /\ Len(citations'[i]) >= Len(citations[i])
              /\ SubSeq(citations'[i], 1, Len(citations[i])) = citations[i]]_vars

\* C20 witness: three set_citations calls, one of them with an empty list,
\* left three records.
C20_Witness ==
    /\ Len(citations["A"]) = 3
    /\ ncalls = 3
    /\ citations["A"][3].name = "T"

====
